---- MODULE Spec2Model ----
(***************************************************************************)
(* A model of report.py: the date normalizer (is_date_format,              *)
(* convert_date_value, calculate_approved_month), the heuristic cell       *)
(* locator (extract_model_and_segment, check_for_alerts, the Accuracy      *)
(* benchmark/vintage lookup) and the per-worksheet normalization pass of   *)
(* process_excel_report_specific_cells.                                    *)
(*                                                                         *)
(* Python text is a sequence of one-character strings, so that strip(),    *)
(* lower(), split(), "in" and the regular expression of parse_tag are      *)
(* computed on characters.  A cell value is a record                       *)
(*   [k |-> "none" | "text" | "int" | "dec", s |-> text, n |-> Int,        *)
(*    f |-> 0..9]                                                          *)
(* (a decimal n.f has one fractional digit and n >= 0).                    *)
(***************************************************************************)
EXTENDS Integers, Sequences, FiniteSets, TLC

VARIABLES
    pc,             \* position of the function under execution
    value,          \* argument of is_date_format / convert_date_value
    ret,            \* what the date function returned
    tagSrc,         \* how the tag was written: [ok, n, m] (its DPD and DOB)
    run_month,      \* argument run_month of calculate_approved_month (text)
    tag,            \* argument tag of calculate_approved_month (text)
    approved,       \* what calculate_approved_month returned
    wb,             \* the workbook: a sequence of worksheets
    wb0,            \* the workbook as it was loaded
    cur,            \* loop position of the running scan / pass: [sheet, row, col]
    alerts,         \* the alerts dictionary of check_for_alerts
    names,          \* [model_name, segment] being built by extract_model_and_segment
    vintage_value   \* vintage_value of process_excel_report_specific_cells

vars == <<pc, value, ret, tagSrc, run_month, tag, approved, wb, wb0, cur, alerts,
          names, vintage_value>>

---------------------------------------------------------------------------
(* Bounds of the model *)

\* longest digit string drawn after the four year digits of a date input
MaxMonthDigits == 2

\* largest DPD and DOB drawn one by one for a tag (larger ones are listed)
MaxDPD == 3

MaxDOB == 7

---------------------------------------------------------------------------
(* Python text *)

Min(a, b) == IF a < b THEN a ELSE b

DigitChars == <<"0", "1", "2", "3", "4", "5", "6", "7", "8", "9">>

UpperChars == <<"A", "B", "C", "D", "E", "F", "G", "H", "I", "J", "K", "L", "M",
                "N", "O", "P", "Q", "R", "S", "T", "U", "V", "W", "X", "Y", "Z">>

LowerChars == <<"a", "b", "c", "d", "e", "f", "g", "h", "i", "j", "k", "l", "m",
                "n", "o", "p", "q", "r", "s", "t", "u", "v", "w", "x", "y", "z">>

\* str.isdigit() of one character
IsDigit(c) == \E i \in 1..10 : DigitChars[i] = c

\* int() of one digit character
DigitVal(c) == (CHOOSE i \in 1..10 : DigitChars[i] = c) - 1

\* what str.strip() and \s take as whitespace
IsSpace(c) == c \in {" ", "\t"}

\* [A-Za-z0-9_], the \w of the re module
IsWordChar(c) ==
    \/ IsDigit(c)
    \/ c = "_"
    \/ \E i \in 1..26 : UpperChars[i] = c \/ LowerChars[i] = c

\* str.isdigit(): non-empty and every character a digit
IsDigits(s) == Len(s) > 0 /\ \A i \in 1..Len(s) : IsDigit(s[i])

\* int() of a digit string
RECURSIVE DigitsVal(_)
DigitsVal(s) ==
    IF Len(s) = 0 THEN 0
    ELSE 10 * DigitsVal(SubSeq(s, 1, Len(s) - 1)) + DigitVal(s[Len(s)])

\* str() of a non-negative integer
RECURSIVE NatStr(_)
NatStr(n) ==
    IF n < 10 THEN <<DigitChars[n + 1]>>
    ELSE Append(NatStr(n \div 10), DigitChars[(n % 10) + 1])

\* str() of an integer
IntStr(n) == IF n < 0 THEN <<"-">> \o NatStr(-n) ELSE NatStr(n)

LowerChar(c) ==
    IF \E i \in 1..26 : UpperChars[i] = c
    THEN LowerChars[CHOOSE i \in 1..26 : UpperChars[i] = c]
    ELSE c

\* str.lower()
Lower(s) == [i \in 1..Len(s) |-> LowerChar(s[i])]

RECURSIVE LStrip(_)
LStrip(s) ==
    IF Len(s) > 0 /\ IsSpace(s[1]) THEN LStrip(Tail(s)) ELSE s

RECURSIVE RStrip(_)
RStrip(s) ==
    IF Len(s) > 0 /\ IsSpace(s[Len(s)]) THEN RStrip(SubSeq(s, 1, Len(s) - 1)) ELSE s

\* str.strip()
Strip(s) == RStrip(LStrip(s))

\* sub occurs in s at position i
OccursAt(s, sub, i) ==
    /\ i >= 1
    /\ i + Len(sub) - 1 <= Len(s)
    /\ \A j \in 1..Len(sub) : s[i + j - 1] = sub[j]

\* Python's "sub in s"
Contains(s, sub) == \E i \in 1..(Len(s) + 1) : OccursAt(s, sub, i)

\* s.split(c)[0]: the text before the first c
SplitFirst(s, c) ==
    IF \E i \in 1..Len(s) : s[i] = c
    THEN SubSeq(s, 1, (CHOOSE i \in 1..Len(s) :
                          s[i] = c /\ \A j \in 1..(i - 1) : s[j] # c) - 1)
    ELSE s

\* s.split(c)[-1]: the text after the last c
SplitLast(s, c) ==
    IF \E i \in 1..Len(s) : s[i] = c
    THEN SubSeq(s, (CHOOSE i \in 1..Len(s) :
                       s[i] = c /\ \A j \in (i + 1)..Len(s) : s[j] # c) + 1, Len(s))
    ELSE s

\* s.replace(a, b) for single characters
ReplaceChar(s, a, b) == [i \in 1..Len(s) |-> IF s[i] = a THEN b ELSE s[i]]

---------------------------------------------------------------------------
(* Cell values *)

None == [k |-> "none", s |-> <<>>, n |-> 0, f |-> 0]

Text(s) == [k |-> "text", s |-> s, n |-> 0, f |-> 0]

IntV(n) == [k |-> "int", s |-> <<>>, n |-> n, f |-> 0]

DecV(n, f) == [k |-> "dec", s |-> <<>>, n |-> n, f |-> f]

\* str(value)
PyStr(v) ==
    CASE v.k = "text" -> v.s
      [] v.k = "int" -> IntStr(v.n)
      [] v.k = "dec" -> IntStr(v.n) \o <<".">> \o NatStr(v.f)
      [] OTHER -> <<"N", "o", "n", "e">>

\* Python truthiness of a cell value: None, "", 0 and 0.0 are false
Truthy(v) ==
    CASE v.k = "text" -> Len(v.s) > 0
      [] v.k = "int" -> v.n # 0
      [] v.k = "dec" -> v.n # 0 \/ v.f # 0
      [] OTHER -> FALSE

---------------------------------------------------------------------------
(* datetime.strptime / strftime, relativedelta *)

MonthAbbr == << <<"J", "a", "n">>, <<"F", "e", "b">>, <<"M", "a", "r">>,
                <<"A", "p", "r">>, <<"M", "a", "y">>, <<"J", "u", "n">>,
                <<"J", "u", "l">>, <<"A", "u", "g">>, <<"S", "e", "p">>,
                <<"O", "c", "t">>, <<"N", "o", "v">>, <<"D", "e", "c">> >>

\* two-digit, zero-padded rendering used by %m and %y
TwoDigits(n) == <<DigitChars[(n \div 10) + 1], DigitChars[(n % 10) + 1]>>

\* datetime.strptime(s, '%Y%m'): %Y is \d\d\d\d, %m is 1[0-2]|0[1-9]|[1-9], and
\* the whole of s must be consumed; ok = FALSE stands for the ValueError
Strptime(s) ==
    LET fail == [ok |-> FALSE, y |-> 0, m |-> 0]
        year == DigitsVal(SubSeq(s, 1, 4))
    IN  IF Len(s) < 5 \/ ~IsDigits(SubSeq(s, 1, 4)) \/ year < 1 THEN fail
        ELSE IF Len(s) >= 6 /\ s[5] = "1" /\ s[6] \in {"0", "1", "2"}
             THEN IF Len(s) = 6
                  THEN [ok |-> TRUE, y |-> year, m |-> 10 + DigitVal(s[6])]
                  ELSE fail
        ELSE IF Len(s) >= 6 /\ s[5] = "0" /\ IsDigit(s[6]) /\ s[6] # "0"
             THEN IF Len(s) = 6
                  THEN [ok |-> TRUE, y |-> year, m |-> DigitVal(s[6])]
                  ELSE fail
        ELSE IF IsDigit(s[5]) /\ s[5] # "0"
             THEN IF Len(s) = 5
                  THEN [ok |-> TRUE, y |-> year, m |-> DigitVal(s[5])]
                  ELSE fail
        ELSE fail

\* date.strftime('%b-%y')
StrftimeMonYY(y, m) == MonthAbbr[m] \o <<"-">> \o TwoDigits(y % 100)

\* date.strftime('%Y%m')
StrftimeYYYYMM(y, m) == NatStr(y) \o TwoDigits(m)

\* date(y, m, 1) - relativedelta(months=k): the months are first split into
\* whole years and a remainder below 12, then the month is borrowed once
MinusMonths(y, m, k) ==
    LET yy == y - (k \div 12)
        mm == m - (k % 12)
    IN  IF mm < 1 THEN [y |-> yy - 1, m |-> mm + 12] ELSE [y |-> yy, m |-> mm]

---------------------------------------------------------------------------
(* The date normalizer *)

DATE_YEAR_MIN == 1900

DATE_YEAR_MAX == 2100

DATE_LEN == 6

\* is_date_format with the month test written "0 <= month"
is_date_format_month0(v) ==
    LET stripped == Strip(PyStr(v))
        str_value == IF Contains(stripped, <<".">>)
                     THEN SplitFirst(stripped, ".")
                     ELSE stripped
    IN  /\ Len(str_value) = DATE_LEN
        /\ IsDigits(str_value)
        /\ LET year == DigitsVal(SubSeq(str_value, 1, 4))
               month == DigitsVal(SubSeq(str_value, 5, 6))
           IN  /\ DATE_YEAR_MIN <= year /\ year <= DATE_YEAR_MAX
               /\ 0 <= month /\ month <= 12

is_date_format(v) ==
    LET stripped == Strip(PyStr(v))
        str_value == IF Contains(stripped, <<".">>)
                     THEN SplitFirst(stripped, ".")
                     ELSE stripped
    IN  /\ Len(str_value) = DATE_LEN
        /\ IsDigits(str_value)
        /\ LET year == DigitsVal(SubSeq(str_value, 1, 4))
               month == DigitsVal(SubSeq(str_value, 5, 6))
           IN  /\ DATE_YEAR_MIN <= year /\ year <= DATE_YEAR_MAX
               /\ 1 <= month /\ month <= 12

\* int(value) of a number: truncation of the fractional part
PyInt(v) == v.n

\* the try block of convert_date_value: [raised, v]
convert_date_try(v) ==
    LET done(x) == [raised |-> FALSE, v |-> x]
        parsed(s) ==
            LET p == Strptime(s)
            IN  IF p.ok THEN done(Text(StrftimeMonYY(p.y, p.m)))
                ELSE [raised |-> TRUE, v |-> None]
    IN  IF v.k = "none" THEN done(v)
        ELSE IF v.k = "text" /\ is_date_format(v) THEN parsed(Strip(v.s))
        ELSE IF v.k \in {"int", "dec"} /\ is_date_format(IntV(PyInt(v)))
             THEN parsed(IntStr(PyInt(v)))
        ELSE done(v)

\* convert_date_value: the except clause returns the argument
convert_date_value(v) ==
    LET r == convert_date_try(v) IN IF r.raised THEN v ELSE r.v

---------------------------------------------------------------------------
(* The tag expression *)

\* first position at or after i that holds no character satisfying P
RECURSIVE SkipDigits(_, _)
SkipDigits(s, i) ==
    IF i <= Len(s) /\ IsDigit(s[i]) THEN SkipDigits(s, i + 1) ELSE i

RECURSIVE SkipSpaces(_, _)
SkipSpaces(s, i) ==
    IF i <= Len(s) /\ IsSpace(s[i]) THEN SkipSpaces(s, i + 1) ELSE i

\* the pattern (\d+)\+DPD\s*@\s*(\d+)\s*DOB, ignoring case, anchored at i
TagMatchAt(s, i) ==
    LET low == Lower(s)
        a == SkipDigits(s, i)
        b == SkipSpaces(s, a + 4)
        c == SkipSpaces(s, b + 1)
        d == SkipDigits(s, c)
        e == SkipSpaces(s, d)
    IN  /\ a > i
        /\ OccursAt(low, <<"+", "d", "p", "d">>, a)
        /\ OccursAt(low, <<"@">>, b)
        /\ d > c
        /\ OccursAt(low, <<"d", "o", "b">>, e)

\* parse_tag: re.search takes the leftmost match; [ok, dpd, dob]
parse_tag(s) ==
    IF \E i \in 1..Len(s) : TagMatchAt(s, i)
    THEN LET i == CHOOSE i \in 1..Len(s) :
                      TagMatchAt(s, i) /\ \A j \in 1..(i - 1) : ~TagMatchAt(s, j)
             a == SkipDigits(s, i)
             c == SkipSpaces(s, SkipSpaces(s, a + 4) + 1)
             d == SkipDigits(s, c)
         IN  [ok |-> TRUE, dpd |-> DigitsVal(SubSeq(s, i, a - 1)),
              dob |-> DigitsVal(SubSeq(s, c, d - 1))]
    ELSE [ok |-> FALSE, dpd |-> 0, dob |-> 0]

\* the result of a call that raised
Raised == [k |-> "raised", s |-> <<>>, n |-> 0, f |-> 0]

\* calculate_approved_month: "if dpd and dob" is Python truthiness
calculate_approved_month(rm, t) ==
    LET p == parse_tag(t)
    IN  IF p.ok /\ p.dpd # 0 /\ p.dob # 0
        THEN LET months_back == (p.dob \div p.dpd) + 1
                 run_date == Strptime(rm)
                 approved_date == MinusMonths(run_date.y, run_date.m, months_back)
             IN  IF ~run_date.ok \/ approved_date.y < 1 THEN Raised
                 ELSE Text(StrftimeYYYYMM(approved_date.y, approved_date.m))
        ELSE None

---------------------------------------------------------------------------
(* Worksheets *)

(* A worksheet is [name, max_row, max_col, cells]: cells maps the populated   *)
(* coordinates <<row, column>> to their values and every other coordinate    *)
(* reads as None.  max_row and max_col are the extent the sheet was loaded   *)
(* with; the cells that reading a coordinate creates are empty.              *)

\* ws.cell(row=r, column=c).value
CellAt(ws, r, c) ==
    IF <<r, c>> \in DOMAIN ws.cells THEN ws.cells[<<r, c>>] ELSE None

\* ws.cell(row=r, column=c).value = v
SetCell(ws, r, c, v) ==
    [ws EXCEPT !.cells = [p \in (DOMAIN ws.cells) \cup {<<r, c>>} |->
                             IF p = <<r, c>> THEN v ELSE ws.cells[p]]]

\* the trimmed text of a cell: str(value).strip()
CellText(v) == Strip(PyStr(v))

(* The scans below run "for row in range(1, min(row_stop, ws.max_row + 1))" and  *)
(* the same for the columns, and begin each turn with "if cell.value:", so a     *)
(* turn at a coordinate that holds nothing changes nothing.  A whole scan is     *)
(* therefore computed over the populated coordinates inside the two ranges,      *)
(* taken in the order of the loops.                                              *)

\* the populated coordinates the two range() loops reach
CellsBelow(ws, row_stop, col_stop) ==
    {p \in DOMAIN ws.cells :
        /\ p[1] < Min(row_stop, ws.max_row + 1)
        /\ p[2] < Min(col_stop, ws.max_col + 1)}

\* the coordinate of todo the loops reach first: rows outermost, then columns
FirstCell(todo) ==
    CHOOSE p \in todo :
        \A q \in todo : p[1] < q[1] \/ (p[1] = q[1] /\ p[2] <= q[2])

W_summary == <<"s", "u", "m", "m", "a", "r", "y">>

W_performance == <<"p", "e", "r", "f", "o", "r", "m", "a", "n", "c", "e">>

W_overall == <<"o", "v", "e", "r", "a", "l", "l">>

W_comment == <<"c", "o", "m", "m", "e", "n", "t">>

W_red == <<"r", "e", "d">>

W_yellow == <<"y", "e", "l", "l", "o", "w">>

W_benchmark == <<"b", "e", "n", "c", "h", "m", "a", "r", "k">>

W_vintage == <<"v", "i", "n", "t", "a", "g", "e">>

W_overview == <<"o", "v", "e", "r", "v", "i", "e", "w">>

W_Accuracy == <<"A", "c", "c", "u", "r", "a", "c", "y">>

W_placeholder == <<"f", "i", "r", "s", "t", " ", "p", "r", "o", "d", "u", "c", "t",
                   "i", "o", "n", " ", "m", "o", "n", "t", "h">>

MODEL_KEYWORDS == {<<"m", "o", "d", "e", "l">>, <<"v", "e", "h", "i", "c", "l", "e">>,
                   <<"c", "a", "r">>}

SEGMENT_KEYWORDS == {<<"s", "e", "g", "m", "e", "n", "t">>,
                     <<"c", "a", "t", "e", "g", "o", "r", "y">>,
                     <<"c", "l", "a", "s", "s">>}

SUMMARY_PREFIX == <<"S", "u", "m", "m", "a", "r", "y", " ", "c", "o", "n", "t", "a",
                    "i", "n", "s", " ", "a", "l", "e", "r", "t", ":", " ">>

COMMENTS_PREFIX == <<"O", "v", "e", "r", "a", "l", "l", " ", "C", "o", "m", "m", "e",
                     "n", "t", "s", " ", "c", "o", "n", "t", "a", "i", "n", "s", " ",
                     "a", "l", "e", "r", "t", ":", " ">>

---------------------------------------------------------------------------
(* check_for_alerts *)

\* the stop of range(1, min(50, ws.max_row + 1))
ALERT_ROW_STOP == 50

\* the stop of range(1, min(10, ws.max_column + 1))
ALERT_COL_STOP == 10

\* the stop of range(1, 5): the cells to the right that are looked at
ALERT_OFFSET_STOP == 5

AlertRowStop(ws) == Min(ALERT_ROW_STOP, ws.max_row + 1)

AlertColStop(ws) == Min(ALERT_COL_STOP, ws.max_col + 1)

NoAlerts == [has_alerts |-> FALSE, summary |-> None, overall_comments |-> None,
             alert_details |-> <<>>]

\* "summary_cell.value and str(summary_cell.value).strip()"
HasText(v) == Truthy(v) /\ Len(CellText(v)) > 0

\* the inner loop over offset_col: the offset of the first cell to the right
\* that has text, or 0 when the loop ends without a break
FirstOffset(ws, row, col) ==
    LET hits == {o \in 1..(ALERT_OFFSET_STOP - 1) : HasText(CellAt(ws, row, col + o))}
    IN  IF hits = {} THEN 0 ELSE CHOOSE o \in hits : \A q \in hits : o <= q

\* any(color in text.lower() for color in ['red', 'yellow'])
HasColor(t) == Contains(Lower(t), W_red) \/ Contains(Lower(t), W_yellow)

\* the summary branch raising the flag for every value found
SummaryBranch_flag_any_value(al, ws, row, col, cell_str) ==
    LET o == FirstOffset(ws, row, col)
        summary_value == CellText(CellAt(ws, row, col + o))
    IN  IF Contains(cell_str, W_summary) /\ ~Contains(cell_str, W_performance) /\ o # 0
        THEN [al EXCEPT
                 !.summary = Text(summary_value),
                 !.has_alerts = TRUE,
                 !.alert_details = IF HasColor(summary_value)
                                   THEN Append(@, SUMMARY_PREFIX \o summary_value)
                                   ELSE @]
        ELSE al

\* the summary branch without the test for "performance"
SummaryBranch_any_summary(al, ws, row, col, cell_str) ==
    LET o == FirstOffset(ws, row, col)
        summary_value == CellText(CellAt(ws, row, col + o))
    IN  IF Contains(cell_str, W_summary) /\ o # 0
        THEN [al EXCEPT
                 !.summary = Text(summary_value),
                 !.has_alerts = IF HasColor(summary_value) THEN TRUE ELSE @,
                 !.alert_details = IF HasColor(summary_value)
                                   THEN Append(@, SUMMARY_PREFIX \o summary_value)
                                   ELSE @]
        ELSE al

\* lines 168-178: the summary branch of the loop body
SummaryBranch(al, ws, row, col, cell_str) ==
    LET o == FirstOffset(ws, row, col)
        summary_value == CellText(CellAt(ws, row, col + o))
    IN  IF Contains(cell_str, W_summary) /\ ~Contains(cell_str, W_performance) /\ o # 0
        THEN [al EXCEPT
                 !.summary = Text(summary_value),
                 !.has_alerts = IF HasColor(summary_value) THEN TRUE ELSE @,
                 !.alert_details = IF HasColor(summary_value)
                                   THEN Append(@, SUMMARY_PREFIX \o summary_value)
                                   ELSE @]
        ELSE al

\* the overall comments branch keeping the first value found
CommentsBranch_first_match(al, ws, row, col, cell_str) ==
    LET o == FirstOffset(ws, row, col)
        comments_value == CellText(CellAt(ws, row, col + o))
    IN  IF Contains(cell_str, W_overall) /\ Contains(cell_str, W_comment) /\ o # 0
        THEN [al EXCEPT
                 !.overall_comments = IF @ = None THEN Text(comments_value) ELSE @,
                 !.has_alerts = IF HasColor(comments_value) THEN TRUE ELSE @,
                 !.alert_details = IF HasColor(comments_value)
                                   THEN Append(@, COMMENTS_PREFIX \o comments_value)
                                   ELSE @]
        ELSE al

\* lines 180-190: the overall comments branch of the loop body
CommentsBranch(al, ws, row, col, cell_str) ==
    LET o == FirstOffset(ws, row, col)
        comments_value == CellText(CellAt(ws, row, col + o))
    IN  IF Contains(cell_str, W_overall) /\ Contains(cell_str, W_comment) /\ o # 0
        THEN [al EXCEPT
                 !.overall_comments = Text(comments_value),
                 !.has_alerts = IF HasColor(comments_value) THEN TRUE ELSE @,
                 !.alert_details = IF HasColor(comments_value)
                                   THEN Append(@, COMMENTS_PREFIX \o comments_value)
                                   ELSE @]
        ELSE al

\* lines 164-190: the loop body for one cell
AlertCell(al, ws, row, col) ==
    LET v == CellAt(ws, row, col)
        cell_str == Lower(CellText(v))
    IN  IF Truthy(v)
        THEN CommentsBranch(SummaryBranch(al, ws, row, col, cell_str),
                            ws, row, col, cell_str)
        ELSE al

\* the loop position after <<sheet, row, col>>; sheet = Len(w) + 1 when the loops end
AlertNext(w, c) ==
    IF c.col + 1 < AlertColStop(w[c.sheet]) THEN [c EXCEPT !.col = @ + 1]
    ELSE IF c.row + 1 < AlertRowStop(w[c.sheet])
         THEN [c EXCEPT !.row = @ + 1, !.col = 1]
    ELSE [sheet |-> c.sheet + 1, row |-> 1, col |-> 1]

\* the loops of lines 162-163 over the cells todo of one sheet
RECURSIVE AlertsOfSheet(_, _, _)
AlertsOfSheet(ws, todo, al) ==
    IF todo = {} THEN al
    ELSE LET p == FirstCell(todo)
         IN  AlertsOfSheet(ws, todo \ {p}, AlertCell(al, ws, p[1], p[2]))

\* the loop of line 160 from sheet i on
RECURSIVE AlertsFrom(_, _, _)
AlertsFrom(w, i, al) ==
    IF i > Len(w) THEN al
    ELSE AlertsFrom(w, i + 1,
                    AlertsOfSheet(w[i], CellsBelow(w[i], ALERT_ROW_STOP, ALERT_COL_STOP),
                                  al))

Start == [sheet |-> 1, row |-> 1, col |-> 1]

\* check_for_alerts(wb)
check_for_alerts(w) == AlertsFrom(w, 1, NoAlerts)

---------------------------------------------------------------------------
(* extract_model_and_segment *)

\* the stop of range(1, min(11, first_sheet.max_row + 1)), rows and columns alike
LOCATOR_STOP == 11

NoNames == [model_name |-> None, segment |-> None]

\* lines 123-128 and 131-136: the value a matching label cell gives, or old
\* when the label has no colon and the next cell is falsy
LabelValue(ws, row, col, cell_str, old) ==
    IF Contains(cell_str, <<":">>)
    THEN Text(Strip(SplitLast(cell_str, ":")))
    ELSE LET next_cell == CellAt(ws, row, col + 1)
         IN  IF Truthy(next_cell) THEN Text(CellText(next_cell)) ELSE old

\* any(keyword in cell_str.lower() for keyword in kws)
HasKeyword(cell_str, kws) == \E kw \in kws : Contains(Lower(cell_str), kw)

\* the loop body without the tests "not model_name" and "not segment"
ExtractCell_last_match(nm, ws, row, col) ==
    LET v == CellAt(ws, row, col)
        cell_str == CellText(v)
    IN  IF Truthy(v)
        THEN [model_name |->
                 IF HasKeyword(cell_str, MODEL_KEYWORDS)
                 THEN LabelValue(ws, row, col, cell_str, nm.model_name)
                 ELSE nm.model_name,
              segment |->
                 IF HasKeyword(cell_str, SEGMENT_KEYWORDS)
                 THEN LabelValue(ws, row, col, cell_str, nm.segment)
                 ELSE nm.segment]
        ELSE nm

\* lines 118-136: the loop body for one cell
ExtractCell(nm, ws, row, col) ==
    LET v == CellAt(ws, row, col)
        cell_str == CellText(v)
    IN  IF Truthy(v)
        THEN [model_name |->
                 IF ~Truthy(nm.model_name) /\ HasKeyword(cell_str, MODEL_KEYWORDS)
                 THEN LabelValue(ws, row, col, cell_str, nm.model_name)
                 ELSE nm.model_name,
              segment |->
                 IF ~Truthy(nm.segment) /\ HasKeyword(cell_str, SEGMENT_KEYWORDS)
                 THEN LabelValue(ws, row, col, cell_str, nm.segment)
                 ELSE nm.segment]
        ELSE nm

\* the loops of lines 116-117 over the cells todo
RECURSIVE ExtractFrom(_, _, _)
ExtractFrom(ws, todo, nm) ==
    IF todo = {} THEN nm
    ELSE LET p == FirstCell(todo)
         IN  ExtractFrom(ws, todo \ {p}, ExtractCell(nm, ws, p[1], p[2]))

\* characters other than [\w\s-] are dropped
RECURSIVE KeepNameChars(_)
KeepNameChars(s) ==
    IF Len(s) = 0 THEN <<>>
    ELSE IF IsWordChar(s[1]) \/ IsSpace(s[1]) \/ s[1] = "-"
         THEN <<s[1]>> \o KeepNameChars(Tail(s))
    ELSE KeepNameChars(Tail(s))

\* lines 138-144: re.sub(r'[^\w\s-]', '', x).strip().replace(' ', '_') of a truthy name
Sanitize(v) ==
    IF Truthy(v) THEN Text(ReplaceChar(Strip(KeepNameChars(v.s)), " ", "_")) ELSE v

\* extract_model_and_segment(wb)
extract_model_and_segment(w) ==
    LET nm == ExtractFrom(w[1], CellsBelow(w[1], LOCATOR_STOP, LOCATOR_STOP), NoNames)
    IN  [model_name |-> Sanitize(nm.model_name), segment |-> Sanitize(nm.segment)]

---------------------------------------------------------------------------
(* process_excel_report_specific_cells *)

\* the stop of range(1, min(20, accuracy_sheet.max_row + 1)), rows and columns alike
VINTAGE_STOP == 20

COL_B == 2

\* target_cells = ['B7', 'B14', 'B15', 'B16', 'B17'], as rows of column B
target_cells == <<7, 14, 15, 16, 17>>

ROW_B14 == 14

ROW_B15 == 15

ROW_B17 == 17

ROW_B18 == 18

\* lines 215-221: the loop body for one cell; 0 stands for None
VintageCell(st, ws, row, col) ==
    LET v == CellAt(ws, row, col)
        cell_str == Lower(CellText(v))
    IN  IF Truthy(v)
        THEN [benchmark_row |->
                 IF cell_str = W_benchmark /\ st.benchmark_row = 0
                 THEN row ELSE st.benchmark_row,
              vintage_col |->
                 IF Contains(cell_str, W_vintage) /\ st.vintage_col = 0
                 THEN col ELSE st.vintage_col]
        ELSE st

\* the loops of lines 213-214 over the cells todo
RECURSIVE VintageFrom(_, _, _)
VintageFrom(ws, todo, st) ==
    IF todo = {} THEN st
    ELSE LET p == FirstCell(todo)
         IN  VintageFrom(ws, todo \ {p}, VintageCell(st, ws, p[1], p[2]))

\* lines 206-231: the vintage value of the workbook
find_vintage(w) ==
    IF \E i \in 1..Len(w) : w[i].name = W_Accuracy
    THEN LET accuracy_sheet == w[CHOOSE i \in 1..Len(w) : w[i].name = W_Accuracy]
             st == VintageFrom(accuracy_sheet,
                               CellsBelow(accuracy_sheet, VINTAGE_STOP, VINTAGE_STOP),
                               [benchmark_row |-> 0, vintage_col |-> 0])
         IN  IF st.benchmark_row # 0 /\ st.vintage_col # 0
             THEN convert_date_value(
                      CellAt(accuracy_sheet, st.benchmark_row, st.vintage_col))
             ELSE None
    ELSE None

\* B14 is converted in place but psi_validation_value keeps the value read
ConvertB14_unconverted_psi(ws) ==
    LET b14 == CellAt(ws, ROW_B14, COL_B)
    IN  IF b14 # None
        THEN [ws |-> SetCell(ws, ROW_B14, COL_B, convert_date_value(b14)),
              psi |-> b14]
        ELSE [ws |-> ws, psi |-> None]

\* lines 238-245: B14 is converted in place; the result is [ws, psi]
ConvertB14(ws) ==
    LET b14 == CellAt(ws, ROW_B14, COL_B)
    IN  IF b14 # None
        THEN [ws |-> SetCell(ws, ROW_B14, COL_B, convert_date_value(b14)),
              psi |-> convert_date_value(b14)]
        ELSE [ws |-> ws, psi |-> None]

\* lines 248-262: the loop body for one target cell
TargetCell(ws, row, psi) ==
    LET v == CellAt(ws, row, COL_B)
    IN  IF row = ROW_B17 /\ psi # None THEN SetCell(ws, row, COL_B, psi)
        ELSE IF row = ROW_B14 THEN ws
        ELSE IF v # None /\ convert_date_value(v) # v
             THEN SetCell(ws, row, COL_B, convert_date_value(v))
        ELSE ws

RECURSIVE TargetsFrom(_, _, _)
TargetsFrom(ws, i, psi) ==
    IF i > Len(target_cells) THEN ws
    ELSE TargetsFrom(TargetCell(ws, target_cells[i], psi), i + 1, psi)

\* lines 238-264: the propagation rule on one worksheet
Propagate(ws) ==
    LET r == ConvertB14(ws) IN TargetsFrom(r.ws, 1, r.psi)

\* the copy without the test for the placeholder text
CopyVintage_any_text(ws, row, vintage) ==
    LET v == CellAt(ws, row, COL_B)
    IN  IF Truthy(v)
        THEN SetCell(ws, row, COL_B, vintage)
        ELSE ws

\* lines 268-270 and 275-277: one placeholder cell of the Overview sheet
CopyVintage(ws, row, vintage) ==
    LET v == CellAt(ws, row, COL_B)
    IN  IF Truthy(v) /\ Lower(CellText(v)) = W_placeholder
        THEN SetCell(ws, row, COL_B, vintage)
        ELSE ws

\* the vintage copy on every sheet, whatever its name
VintageCopy_any_sheet(ws, vintage) ==
    IF vintage # None
    THEN CopyVintage(CopyVintage(ws, ROW_B15, vintage), ROW_B18, vintage)
    ELSE ws

\* lines 266-279: the vintage copy rule on one worksheet
VintageCopy(ws, vintage) ==
    IF Lower(ws.name) = W_overview /\ vintage # None
    THEN CopyVintage(CopyVintage(ws, ROW_B15, vintage), ROW_B18, vintage)
    ELSE ws

\* lines 236-279: the body of the loop over the sheets
NormalizeSheet(ws, vintage) == VintageCopy(Propagate(ws), vintage)

---------------------------------------------------------------------------
(* Values the variables hold while another function is the one under execution *)

NoRet == [fn |-> "none", b |-> FALSE, v |-> None]

NoCur == [sheet |-> 0, row |-> 0, col |-> 0]

IdleDate == value = None /\ ret = NoRet

IdleTag ==
    /\ tagSrc = [ok |-> FALSE, n |-> 0, m |-> 0]
    /\ run_month = <<>>
    /\ tag = <<>>
    /\ approved = None

IdleBook ==
    /\ wb = <<>>
    /\ wb0 = <<>>
    /\ cur = NoCur
    /\ alerts = NoAlerts
    /\ names = NoNames
    /\ vintage_value = None

dateVars == <<value, ret>>

tagVars == <<tagSrc, run_month, tag, approved>>

bookVars == <<wb, wb0, cur, alerts, names, vintage_value>>

---------------------------------------------------------------------------
(* The date functions on their inputs *)

\* all digit strings of length n over the digits ds
DigitStrings(ds, n) == [1..n -> ds]

YearTexts == {<<"1", "8", "9", "9">>, <<"1", "9", "0", "0">>, <<"2", "0", "2", "4">>,
              <<"2", "1", "0", "0">>, <<"2", "1", "0", "1">>, <<"0", "0", "0", "0">>,
              <<"1", "2", "3", "4">>, <<"9", "9", "9", "9">>}

MonthTexts == UNION {DigitStrings({"0", "1", "2", "3", "9"}, n) : n \in 0..MaxMonthDigits}

DateCores == {y \o m : y \in YearTexts, m \in MonthTexts}
                 \cup {<<>>, <<"2", "0", "2">>}

DatePads == {<<>>, <<" ">>}

DateTails == {<<>>, <<".">>, <<".", "0">>, <<".", "5">>, <<" ">>, <<"a">>,
              <<" ", ".", "0">>, <<"-", "0", "3">>}

OtherTexts == {<<"h", "e", "l", "l", "o">>, <<"M", "a", "r", "-", "2", "4">>,
               <<"2", "0", "2", "4", "-", "0", "3">>, <<".", "2", "0", "2", "4", "0", "3">>}

DateInputs ==
    {None}
        \cup {Text(p \o c \o t) : p \in DatePads, c \in DateCores, t \in DateTails}
        \cup {Text(t) : t \in OtherTexts}
        \cup {IntV(DigitsVal(c)) : c \in DateCores}
        \cup {IntV(0 - DigitsVal(c)) : c \in DateCores}
        \cup {DecV(DigitsVal(c), f) : c \in DateCores, f \in {0, 5}}

InitDate ==
    /\ pc = "date_call"
    /\ value \in DateInputs
    /\ ret = NoRet
    /\ IdleTag
    /\ IdleBook

\* a call is_date_format(value)
CallIsDateFormat ==
    /\ pc = "date_call"
    /\ pc' = "date_done"
    /\ ret' = [fn |-> "is_date_format", b |-> is_date_format(value), v |-> None]
    /\ UNCHANGED <<value, tagVars, bookVars>>

\* a call convert_date_value(value)
CallConvertDateValue ==
    /\ pc = "date_call"
    /\ pc' = "date_done"
    /\ ret' = [fn |-> "convert_date_value", b |-> FALSE, v |-> convert_date_value(value)]
    /\ UNCHANGED <<value, tagVars, bookVars>>

NextDate == CallIsDateFormat \/ CallConvertDateValue

SpecDate == InitDate /\ [][NextDate]_vars

---------------------------------------------------------------------------
(* calculate_approved_month on its inputs *)

W_plus_DPD == <<"+", "D", "P", "D">>

W_DOB == <<"D", "O", "B">>

\* the ways a tag with DPD n and DOB m is written; the first four match the pattern
TagShapes == {"plain", "tight", "lower", "padded", "noplus", "noat", "nodob", "nodpd"}

WriteTag(shape, n, m) ==
    CASE shape = "plain" ->
             NatStr(n) \o W_plus_DPD \o <<" ", "@", " ">> \o NatStr(m) \o <<" ">> \o W_DOB
      [] shape = "tight" ->
             NatStr(n) \o W_plus_DPD \o <<"@">> \o NatStr(m) \o W_DOB
      [] shape = "lower" ->
             NatStr(n) \o Lower(W_plus_DPD) \o <<" ", "@", " ">> \o NatStr(m) \o <<" ">>
                 \o Lower(W_DOB)
      [] shape = "padded" ->
             <<"t", "a", "g", " ">> \o NatStr(n) \o W_plus_DPD \o <<" ", "\t", "@", " ">>
                 \o NatStr(m) \o <<" ", " ">> \o W_DOB \o <<" ">>
      [] shape = "noplus" ->
             NatStr(n) \o <<" ", "D", "P", "D">> \o <<" ", "@", " ">> \o NatStr(m)
                 \o <<" ">> \o W_DOB
      [] shape = "noat" ->
             NatStr(n) \o W_plus_DPD \o <<" ">> \o NatStr(m) \o <<" ">> \o W_DOB
      [] shape = "nodob" ->
             NatStr(n) \o W_plus_DPD \o <<" ", "@", " ">> \o NatStr(m)
      [] OTHER ->
             W_plus_DPD \o <<" ", "@", " ">> \o NatStr(m) \o <<" ">> \o W_DOB

TagMatches(shape) == shape \in {"plain", "tight", "lower", "padded"}

TagDPDs == (0..MaxDPD) \cup {30}

TagDOBs == (0..MaxDOB) \cup {30, 75, 120}

RunYears == {2023, 2024}

InitTag ==
    /\ pc = "tag_call"
    /\ \E y \in RunYears, mo \in 1..12 : run_month = NatStr(y) \o TwoDigits(mo)
    /\ \E shape \in TagShapes, n \in TagDPDs, m \in TagDOBs :
           /\ tag = WriteTag(shape, n, m)
           /\ tagSrc = [ok |-> TagMatches(shape), n |-> n, m |-> m]
    /\ approved = None
    /\ IdleDate
    /\ IdleBook

\* a call calculate_approved_month(run_month, tag)
CallApprovedMonth ==
    /\ pc = "tag_call"
    /\ pc' = "tag_done"
    /\ approved' = calculate_approved_month(run_month, tag)
    /\ UNCHANGED <<tagSrc, run_month, tag, dateVars, bookVars>>

NextTag == CallApprovedMonth

SpecTag == InitTag /\ [][NextTag]_vars

---------------------------------------------------------------------------
(* Properties of the date functions *)

\* a text with everything from its first decimal point on removed
CutAtPoint(t) == SplitFirst(t, ".")

\* t is exactly six digits: a year in [1900, 2100] followed by a month in [1, 12]
YearMonthText(t) ==
    /\ Len(t) = 6
    /\ \E y \in 1900..2100 : SubSeq(t, 1, 4) = NatStr(y)
    /\ \E m \in 1..12 : SubSeq(t, 5, 6) = TwoDigits(m)

\* the "Mon-YY" display form of a six-digit year-month text
DisplayForm(t) ==
    MonthAbbr[CHOOSE m \in 1..12 : SubSeq(t, 5, 6) = TwoDigits(m)]
        \o <<"-">> \o SubSeq(t, 3, 4)

\* the string form of a value: its text without the surrounding whitespace
StringForm(v) == Strip(PyStr(v))

C4_AsClaimed ==
    ret.fn = "convert_date_value" =>
        ret.v = IF value.k = "text" /\ YearMonthText(CutAtPoint(Strip(value.s)))
                THEN Text(DisplayForm(CutAtPoint(Strip(value.s))))
                ELSE IF value.k \in {"int", "dec"} /\ YearMonthText(IntStr(value.n))
                     THEN Text(DisplayForm(IntStr(value.n)))
                ELSE value

---------------------------------------------------------------------------
(* Properties of calculate_approved_month *)

\* the month k calendar months before the YYYYMM text rm, as YYYYMM
MonthsBefore(rm, k) ==
    LET total == 12 * DigitsVal(SubSeq(rm, 1, 4)) + DigitsVal(SubSeq(rm, 5, 6)) - 1 - k
    IN  NatStr(total \div 12) \o TwoDigits((total % 12) + 1)

\* C5 as stated: for a tag written with DPD n >= 1 and DOB m >= 0 in the shape of
\* the pattern the result is run_month minus (m div n) + 1 months, and a tag that
\* does not match gives none.
C5_AsClaimed ==
    pc = "tag_done" =>
        /\ (tagSrc.ok /\ tagSrc.n >= 1) =>
               approved = Text(MonthsBefore(run_month, (tagSrc.m \div tagSrc.n) + 1))
        /\ ~tagSrc.ok => approved = None

---------------------------------------------------------------------------
(* Workbooks *)

\* the extent of a sheet with these cells: openpyxl reports at least 1
MaxRowOf(cells) ==
    IF DOMAIN cells = {} THEN 1
    ELSE CHOOSE r \in {p[1] : p \in DOMAIN cells} :
             \A p \in DOMAIN cells : p[1] <= r

MaxColOf(cells) ==
    IF DOMAIN cells = {} THEN 1
    ELSE CHOOSE c \in {p[2] : p \in DOMAIN cells} :
             \A p \in DOMAIN cells : p[2] <= c

\* the cells of a list of <<row, column, value>> entries, those of None left out;
\* a coordinate listed twice holds its first value
CellsOf(entries) ==
    LET set == {i \in 1..Len(entries) :
                    /\ entries[i][3] # None
                    /\ \A j \in 1..(i - 1) :
                           <<entries[j][1], entries[j][2]>>
                               # <<entries[i][1], entries[i][2]>>}
    IN  [p \in {<<entries[i][1], entries[i][2]>> : i \in set} |->
             entries[CHOOSE i \in set : <<entries[i][1], entries[i][2]>> = p][3]]

\* a loaded worksheet
Sheet(name, entries) ==
    [name |-> name, max_row |-> MaxRowOf(CellsOf(entries)),
     max_col |-> MaxColOf(CellsOf(entries)), cells |-> CellsOf(entries)]

\* a label at <<row, col>>, gap filler cells to its right and then a value
Labelled(row, col, label, gap, filler, val) ==
    <<<<row, col, Text(label)>>>>
        \o [i \in 1..gap |-> <<row, col + i, filler>>]
        \o <<<<row, col + gap + 1, val>>>>

---------------------------------------------------------------------------
(* check_for_alerts on its workbooks *)

\* most cells between a label and the value to its right
MaxGap == 4

AlertSpots == {<<1, 1>>, <<2, 3>>, <<49, 1>>, <<50, 1>>, <<1, 9>>, <<1, 10>>}

AlertLabels == {<<"S", "u", "m", "m", "a", "r", "y">>, <<"P", "e", "r", "f", "o", "r", "m", "a", "n", "c", "e", " ", "S", "u", "m", "m", "a", "r", "y">>, <<" ", "O", "v", "e", "r", "a", "l", "l", " ", "C", "o", "m", "m", "e", "n", "t", "s", ":", " ">>,
                <<"S", "u", "m", "m", "a", "r", "y", " ", "o", "f", " ", "o", "v", "e", "r", "a", "l", "l", " ", "c", "o", "m", "m", "e", "n", "t">>, <<"N", "o", "t", "e", "s">>}

AlertFillers == {None, Text(<<" ">>), IntV(0)}

AlertValues == {None, Text(<<"R", "e", "d", " ", "-", " ", "n", "e", "e", "d", "s", " ", "r", "e", "v", "i", "e", "w">>), Text(<<"o", "k">>), Text(<<" ", "Y", "e", "l", "l", "o", "w", " ">>),
                IntV(7)}

SheetName == <<"S", "h", "e", "e", "t", "1">>

\* sheets with one label
AlertSheets ==
    {Sheet(SheetName, Labelled(p[1], p[2], l, g, f, v)) :
        p \in AlertSpots, l \in AlertLabels, g \in 0..MaxGap, f \in AlertFillers,
        v \in AlertValues}

\* small sheets for a second sheet, or for a second label two rows below the first
SecondEntries ==
    {Labelled(3, 1, l, 0, None, v) :
        l \in {<<"S", "u", "m", "m", "a", "r", "y">>, <<"O", "v", "e", "r", "a", "l", "l", " ", "C", "o", "m", "m", "e", "n", "t", "s">>},
        v \in {None, Text(<<"o", "k">>), Text(<<"Y", "e", "l", "l", "o", "w">>)}}

SmallAlertSheets ==
    {Sheet(SheetName, Labelled(p[1], p[2], l, g, None, v)) :
        p \in {<<1, 1>>}, l \in AlertLabels, g \in {0, 3}, v \in AlertValues}

AlertBooks ==
    {<<s>> : s \in AlertSheets}
        \cup {<<s, Sheet(SheetName, e)>> : s \in SmallAlertSheets, e \in SecondEntries}
        \cup {<<Sheet(SheetName, s.e \o e)>> :
                 s \in {[e |-> Labelled(1, 1, l, 0, None, v)] :
                           l \in AlertLabels, v \in AlertValues},
                 e \in SecondEntries}

InitAlerts ==
    /\ pc = "alerts_call"
    /\ wb \in AlertBooks
    /\ wb0 = wb
    /\ cur = NoCur
    /\ alerts = NoAlerts
    /\ names = NoNames
    /\ vintage_value = None
    /\ IdleDate
    /\ IdleTag

\* lines 153-158: the dictionary is created and the loops begin
AlertsBegin ==
    /\ pc = "alerts_call"
    /\ pc' = "alerts_scan"
    /\ alerts' = NoAlerts
    /\ cur' = Start
    /\ UNCHANGED <<wb, wb0, names, vintage_value, dateVars, tagVars>>

\* lines 164-190: one turn of the innermost loop
AlertsCell ==
    /\ pc = "alerts_scan"
    /\ cur.sheet <= Len(wb)
    /\ alerts' = AlertCell(alerts, wb[cur.sheet], cur.row, cur.col)
    /\ cur' = AlertNext(wb, cur)
    /\ UNCHANGED <<pc, wb, wb0, names, vintage_value, dateVars, tagVars>>

\* line 192: return alerts
AlertsReturn ==
    /\ pc = "alerts_scan"
    /\ cur.sheet > Len(wb)
    /\ pc' = "alerts_done"
    /\ UNCHANGED <<wb, wb0, cur, alerts, names, vintage_value, dateVars, tagVars>>

NextAlerts == AlertsBegin \/ AlertsCell \/ AlertsReturn

SpecAlerts == InitAlerts /\ [][NextAlerts]_vars

---------------------------------------------------------------------------
(* Properties of check_for_alerts *)

\* a label that qualifies for the summary field
IsSummaryLabel(v) ==
    /\ v # None
    /\ Contains(Lower(Strip(PyStr(v))), W_summary)
    /\ ~Contains(Lower(Strip(PyStr(v))), W_performance)

\* a label that qualifies for the overall comments field
IsCommentsLabel(v) ==
    /\ v # None
    /\ Contains(Lower(Strip(PyStr(v))), W_overall)
    /\ Contains(Lower(Strip(PyStr(v))), W_comment)

\* the populated coordinates of ws within rows 1..min(50, max_row) and columns
\* 1..min(10, max_col)
First50By10(ws) ==
    {p \in DOMAIN ws.cells : p[1] <= Min(50, ws.max_row) /\ p[2] <= Min(10, ws.max_col)}

\* C6 as stated: a qualifying label anywhere in rows 1..min(50, max_row) and
\* columns 1..min(10, max_col) of a sheet, with text within four cells to its
\* right, populates its field of the returned report.
C6_AsClaimed ==
    pc = "alerts_done" =>
        \A i \in 1..Len(wb) : \A p \in First50By10(wb[i]) :
            FirstOffset(wb[i], p[1], p[2]) # 0 =>
                /\ IsSummaryLabel(wb[i].cells[p]) => alerts.summary # None
                /\ IsCommentsLabel(wb[i].cells[p]) => alerts.overall_comments # None

\* a non-empty cell: it holds something other than blank text or a numeric zero
NonEmpty(v) ==
    /\ v # None
    /\ Len(Strip(PyStr(v))) > 0
    /\ v # IntV(0)
    /\ v # DecV(0, 0)

\* the trimmed text of the first non-empty cell among the four right of
\* <<row, col>>, as a one-element sequence, or <<>> when there is none
FirstRight(ws, row, col) ==
    LET hits == {o \in 1..4 : NonEmpty(CellAt(ws, row, col + o))}
    IN  IF hits = {} THEN <<>>
        ELSE <<Strip(PyStr(CellAt(ws, row, col + CHOOSE o \in hits :
                                                    \A q \in hits : o <= q)))>>

ContainsColor(t) ==
    \E i \in 1..Len(t) :
        \/ OccursAt(Lower(t), <<"r", "e", "d">>, i)
        \/ OccursAt(Lower(t), <<"y", "e", "l", "l", "o", "w">>, i)

\* what one turn of the scan at cur does to the report
AlertTurn ==
    (pc = "alerts_scan" /\ cur.sheet <= Len(wb)) =>
        LET ws == wb[cur.sheet]
            v == CellAt(ws, cur.row, cur.col)
            found == FirstRight(ws, cur.row, cur.col)
            s == IF IsSummaryLabel(v) THEN found ELSE <<>>
            c == IF IsCommentsLabel(v) THEN found ELSE <<>>
            sline == IF s # <<>> /\ ContainsColor(s[1])
                     THEN <<SUMMARY_PREFIX \o s[1]>> ELSE <<>>
            cline == IF c # <<>> /\ ContainsColor(c[1])
                     THEN <<COMMENTS_PREFIX \o c[1]>> ELSE <<>>
        IN  /\ alerts'.summary = IF s # <<>> THEN Text(s[1]) ELSE alerts.summary
            /\ alerts'.overall_comments =
                   IF c # <<>> THEN Text(c[1]) ELSE alerts.overall_comments
            /\ alerts'.alert_details = alerts.alert_details \o sline \o cline
            /\ alerts'.has_alerts =
                   (alerts.has_alerts \/ sline # <<>> \/ cline # <<>>)

---------------------------------------------------------------------------
(* extract_model_and_segment on its workbooks *)

LocatorLabels == {<<"M", "o", "d", "e", "l", ":", " ", "S", "e", "d", "a", "n", "-", "X">>, <<"M", "o", "d", "e", "l">>, <<" ", "M", "o", "d", "e", "l", " ", ":", " ">>, <<"V", "e", "h", "i", "c", "l", "e", " ", "c", "l", "a", "s", "s">>,
                  <<"S", "e", "g", "m", "e", "n", "t", ":", " ", "A", ":", "B", " ", "2", " ">>, <<"C", "a", "t", "e", "g", "o", "r", "y">>, <<"N", "a", "m", "e">>, <<"C", "a", "r", ":", " ", "?", "!">>}

LocatorValues == {None, Text(<<"S", "e", "d", "a", "n", "-", "X">>), Text(<<" ", "S", "U", "V", " ", "4", "x", "4", "!", " ">>), Text(<<" ">>),
                  IntV(0), IntV(7)}

FirstSpots == {<<1, 1>>, <<3, 1>>, <<10, 10>>, <<11, 1>>, <<1, 11>>}

LaterSpots == {<<3, 3>>, <<10, 10>>, <<11, 1>>}

\* first sheets with one label, or with two labels
LocatorBooks ==
    {<<Sheet(SheetName, Labelled(p[1], p[2], l, 0, None, v))>> :
        p \in FirstSpots, l \in LocatorLabels, v \in LocatorValues}
        \cup {<<Sheet(SheetName, Labelled(p[1], p[2], l, 0, None, v)
                                     \o Labelled(q[1], q[2], m, 0, None, w))>> :
                 p \in {<<1, 1>>, <<3, 1>>}, l \in LocatorLabels, v \in LocatorValues,
                 q \in LaterSpots, m \in LocatorLabels, w \in LocatorValues}

InitLocator ==
    /\ pc = "extract_call"
    /\ wb \in LocatorBooks
    /\ wb0 = wb
    /\ cur = NoCur
    /\ alerts = NoAlerts
    /\ names = NoNames
    /\ vintage_value = None
    /\ IdleDate
    /\ IdleTag

\* a call extract_model_and_segment(wb)
CallExtract ==
    /\ pc = "extract_call"
    /\ pc' = "extract_done"
    /\ names' = extract_model_and_segment(wb)
    /\ UNCHANGED <<wb, wb0, cur, alerts, vintage_value, dateVars, tagVars>>

NextLocator == CallExtract

SpecLocator == InitLocator /\ [][NextLocator]_vars

---------------------------------------------------------------------------
(* Properties of extract_model_and_segment *)

\* p comes before q in row-major order
RowMajorLeq(p, q) == p[1] < q[1] \/ (p[1] = q[1] /\ p[2] <= q[2])

\* the populated cells of ws in rows 1..min(10, max_row), columns 1..min(10, max_col)
\* whose lowercased trimmed text contains a keyword of kws
KeywordCells(ws, kws) ==
    {p \in DOMAIN ws.cells :
        /\ p[1] <= Min(10, ws.max_row)
        /\ p[2] <= Min(10, ws.max_col)
        /\ \E kw \in kws : Contains(Lower(Strip(PyStr(ws.cells[p]))), kw)}

\* the text after the last colon of a label
AfterLastColon(t) ==
    LET colons == {i \in 1..Len(t) : t[i] = ":"}
    IN  SubSeq(t, (CHOOSE i \in colons : \A j \in colons : j <= i) + 1, Len(t))

\* the value the label at p gives: the trimmed text after its last colon, or else
\* the trimmed content of the cell to its right when that cell is non-empty
ValueOfLabel(ws, p) ==
    LET t == Strip(PyStr(ws.cells[p]))
        right == CellAt(ws, p[1], p[2] + 1)
    IN  IF \E i \in 1..Len(t) : t[i] = ":" THEN Strip(AfterLastColon(t))
        ELSE IF NonEmpty(right) THEN Strip(PyStr(right))
        ELSE <<>>

\* a returned name that stands for "nothing found": None or the empty text
NoValue(v) == v = None \/ v = Text(<<>>)

\* the name made of a value: characters other than letters, digits, "_", "-" and
\* whitespace dropped, trimmed, spaces turned into "_"
NameOf(t) ==
    LET kept == {i \in 1..Len(t) : IsWordChar(t[i]) \/ IsSpace(t[i]) \/ t[i] = "-"}
        RECURSIVE Pick(_)
        Pick(i) == IF i > Len(t) THEN <<>>
                   ELSE IF i \in kept THEN <<t[i]>> \o Pick(i + 1)
                   ELSE Pick(i + 1)
    IN  [i \in 1..Len(Strip(Pick(1))) |->
            IF Strip(Pick(1))[i] = " " THEN "_" ELSE Strip(Pick(1))[i]]

\* C8 as stated: the result is decided by the first keyword cell alone; when that
\* cell gives an empty value the result is none, whatever a later cell holds.
FirstMatchWins(found, ws, kws) ==
    LET cells == KeywordCells(ws, kws)
        first == CHOOSE p \in cells : \A q \in cells : RowMajorLeq(p, q)
    IN  IF cells = {} \/ ValueOfLabel(ws, first) = <<>>
        THEN NoValue(found)
        ELSE found = Text(NameOf(ValueOfLabel(ws, first)))

FirstValueWins(found, ws, kws) ==
    LET cells == {p \in KeywordCells(ws, kws) :
                     ValueOfLabel(ws, p) # <<>>}
        first == CHOOSE p \in cells : \A q \in cells : RowMajorLeq(p, q)
    IN  IF cells = {} THEN NoValue(found)
        ELSE found = Text(NameOf(ValueOfLabel(ws, first)))

---------------------------------------------------------------------------
(* process_excel_report_specific_cells on its workbooks *)

B14Values == {None, Text(<<"2", "0", "2", "4", "0", "3">>), IntV(202403), DecV(202403, 5),
              Text(<<"2", "0", "2", "4", "0", "3", ".", "0">>), Text(<<"n", "/", "a">>)}

B17Values == {None, Text(<<"o", "l", "d">>), IntV(202312)}

B15Values == {None, Text(<<"f", "i", "r", "s", "t", " ", "p", "r", "o", "d", "u", "c", "t", "i", "o", "n", " ", "m", "o", "n", "t", "h">>),
              Text(<<" ", "F", "i", "r", "s", "t", " ", "P", "r", "o", "d", "u", "c", "t", "i", "o", "n", " ", "M", "o", "n", "t", "h", " ">>), Text(<<"2", "0", "2", "4", "0", "2">>),
              Text(<<"f", "i", "r", "s", "t", " ", "p", "r", "o", "d", "u", "c", "t", "i", "o", "n">>)}

B18Values == {None, Text(<<"F", "i", "r", "s", "t", " ", "p", "r", "o", "d", "u", "c", "t", "i", "o", "n", " ", "m", "o", "n", "t", "h">>), Text(<<"2", "0", "2", "4", "0", "2">>)}

B7Values == {None, IntV(202405)}

B16Values == {None, Text(<<" ", "2", "0", "2", "4", "0", "6", " ">>)}

MainNames == {<<"O", "v", "e", "r", "v", "i", "e", "w">>, <<"O", "V", "E", "R", "V", "I", "E", "W">>, <<"R", "e", "s", "u", "l", "t", "s">>}

MainSheets ==
    {Sheet(nm, <<<<7, 2, b7>>, <<14, 2, b14>>, <<15, 2, b15>>, <<16, 2, b16>>,
                 <<17, 2, b17>>, <<18, 2, b18>>, <<1, 1, Text(<<"R", "e", "p", "o", "r", "t">>)>>>>) :
        nm \in MainNames, b7 \in B7Values, b14 \in B14Values, b15 \in B15Values,
        b16 \in B16Values, b17 \in B17Values, b18 \in B18Values}

FewMainSheets ==
    {Sheet(<<"O", "v", "e", "r", "v", "i", "e", "w">>,
           <<<<14, 2, b14>>, <<15, 2, Text(<<"F", "i", "r", "s", "t", " ", "P", "r", "o", "d", "u", "c", "t", "i", "o", "n", " ", "M", "o", "n", "t", "h">>)>>,
             <<17, 2, Text(<<"o", "l", "d">>)>>, <<18, 2, b18>>>>) :
        b14 \in {None, IntV(202403)},
        b18 \in {Text(<<"f", "i", "r", "s", "t", " ", "p", "r", "o", "d", "u", "c", "t", "i", "o", "n", " ", "m", "o", "n", "t", "h">>), Text(<<"k", "e", "e", "p">>)}}

BenchmarkLabels == {None, Text(<<"B", "e", "n", "c", "h", "m", "a", "r", "k">>), Text(<<" ", "b", "e", "n", "c", "h", "m", "a", "r", "k", " ">>),
                    Text(<<"B", "e", "n", "c", "h", "m", "a", "r", "k", " ", "m", "o", "d", "e", "l">>)}

VintageLabels == {None, Text(<<"V", "i", "n", "t", "a", "g", "e">>), Text(<<"F", "i", "r", "s", "t", " ", "v", "i", "n", "t", "a", "g", "e", " ", "m", "o", "n", "t", "h">>)}

VintageCells == {None, Text(<<"2", "0", "2", "4", "0", "1">>), IntV(202401), Text(<<"Q", "1", "-", "2", "4">>)}

\* rows of the benchmark label and columns of the vintage header
AccuracySpots == {2, 19, 20}

\* an Accuracy sheet: headers in row 1, labels in column 1, a second benchmark
\* row and a second vintage column after the first
AccuracySheets(nm) ==
    {Sheet(nm, <<<<1, 1, Text(<<"M", "o", "d", "e", "l">>)>>, <<r, 1, bl>>, <<1, c, vl>>, <<r, c, v>>,
                 <<r + 1, 1, Text(<<"B", "e", "n", "c", "h", "m", "a", "r", "k">>)>>, <<r + 1, c, Text(<<"2", "0", "9", "9", "1", "2">>)>>,
                 <<2, c + 1, Text(<<"V", "i", "n", "t", "a", "g", "e", " ", "2">>)>>, <<r, c + 1, Text(<<"2", "0", "2", "2", "1", "2">>)>>>>) :
        r \in AccuracySpots, c \in AccuracySpots, bl \in BenchmarkLabels,
        vl \in VintageLabels, v \in VintageCells}

FewAccuracySheets ==
    {Sheet(nm, <<<<1, 1, Text(<<"M", "o", "d", "e", "l">>)>>, <<2, 1, Text(<<"B", "e", "n", "c", "h", "m", "a", "r", "k">>)>>,
                 <<1, 2, Text(<<"V", "i", "n", "t", "a", "g", "e">>)>>, <<2, 2, v>>>>) :
        nm \in {<<"A", "c", "c", "u", "r", "a", "c", "y">>, <<"a", "c", "c", "u", "r", "a", "c", "y">>}, v \in {IntV(202401)}}

PassBooks ==
    {<<m>> : m \in MainSheets}
        \cup {<<m, a>> : m \in MainSheets, a \in FewAccuracySheets}
        \cup {<<a, m>> : a \in AccuracySheets(<<"A", "c", "c", "u", "r", "a", "c", "y">>), m \in FewMainSheets}

InitPass ==
    /\ pc = "pass_call"
    /\ wb \in PassBooks
    /\ wb0 = wb
    /\ cur = NoCur
    /\ alerts = NoAlerts
    /\ names = NoNames
    /\ vintage_value = None
    /\ IdleDate
    /\ IdleTag

\* lines 201-233: the workbook is loaded and read
PassLoad ==
    /\ pc = "pass_call"
    /\ pc' = "pass_sheets"
    /\ names' = extract_model_and_segment(wb)
    /\ alerts' = check_for_alerts(wb)
    /\ vintage_value' = find_vintage(wb)
    /\ cur' = Start
    /\ UNCHANGED <<wb, wb0, dateVars, tagVars>>

\* lines 235-279: one turn of the loop over the sheets
PassSheet ==
    /\ pc = "pass_sheets"
    /\ cur.sheet <= Len(wb)
    /\ wb' = [wb EXCEPT ![cur.sheet] = NormalizeSheet(@, vintage_value)]
    /\ cur' = [cur EXCEPT !.sheet = @ + 1]
    /\ UNCHANGED <<pc, wb0, alerts, names, vintage_value, dateVars, tagVars>>

\* lines 281-300: the workbook is saved and the call returns
PassSave ==
    /\ pc = "pass_sheets"
    /\ cur.sheet > Len(wb)
    /\ pc' = "saved"
    /\ UNCHANGED <<wb, wb0, cur, alerts, names, vintage_value, dateVars, tagVars>>

NextPass == PassLoad \/ PassSheet \/ PassSave

SpecPass == InitPass /\ [][NextPass]_vars

---------------------------------------------------------------------------
(* The model as a whole: one of the functions is called *)

Init == InitDate \/ InitTag \/ InitAlerts \/ InitLocator \/ InitPass

Next == NextDate \/ NextTag \/ NextAlerts \/ NextLocator \/ NextPass

Spec == Init /\ [][Next]_vars

---------------------------------------------------------------------------
(* Properties of process_excel_report_specific_cells *)

\* the value at column B, row r
B(ws, r) == CellAt(ws, r, 2)

\* C1 as stated: when the pass has ended, B17 equals B14 on every worksheet,
\* whatever the two cells held, B14 empty and B17 not included.
C1_AsClaimed ==
    pc = "saved" => \A i \in 1..Len(wb) : B(wb[i], 17) = B(wb[i], 14)

\* two worksheets agree on B7, B14, B15, B16 and B17
SameTargets(a, b) == \A r \in {7, 14, 15, 16, 17} : B(a, r) = B(b, r)

\* C2: on every worksheet as loaded, the propagation rule applied twice leaves B7,
\* B14, B15, B16 and B17 as the rule applied once leaves them; applied to a
\* worksheet the pass has normalized, it changes none of them.
C2_Idempotent ==
    \A i \in 1..Len(wb) :
        /\ pc = "pass_call" =>
               SameTargets(Propagate(Propagate(wb[i])), Propagate(wb[i]))
        /\ (pc = "saved" \/ (pc = "pass_sheets" /\ i < cur.sheet)) =>
               SameTargets(Propagate(wb[i]), wb[i])

\* the pass has converted a date token in B14 and overwritten a different B17
C2_Witness ==
    /\ pc = "saved"
    /\ \E i \in 1..Len(wb) :
           /\ B(wb0[i], 14) = IntV(202403)
           /\ B(wb0[i], 17) = Text(<<"o", "l", "d">>)
           /\ B(wb[i], 14) = Text(<<"M", "a", "r", "-", "2", "4">>)
           /\ B(wb[i], 17) = Text(<<"M", "a", "r", "-", "2", "4">>)
           /\ B(wb[i], 7) = Text(<<"M", "a", "y", "-", "2", "4">>)

\* the text of a cell, trimmed and lowercased, is the placeholder
IsPlaceholder(v) ==
    Lower(Strip(PyStr(v))) = <<"f", "i", "r", "s", "t", " ", "p", "r", "o", "d", "u", "c", "t", "i", "o", "n", " ", "m", "o", "n", "t", "h">>

\* the sheet is named "Overview", in any case
NamedOverview(ws) == Lower(ws.name) = <<"o", "v", "e", "r", "v", "i", "e", "w">>

\* C9: when the pass has ended, on a sheet named "Overview" (in any case) and
\* with a vintage value derived, B15 and B18 hold the vintage value exactly when
\* their text was the placeholder; otherwise, and on every other sheet or without
\* a vintage value, B18 holds what it held and B15 what the propagation rule gave.
C9_VintageCopy ==
    pc = "saved" =>
        \A i \in 1..Len(wb) :
            LET fires == NamedOverview(wb0[i]) /\ vintage_value # None
            IN  /\ B(wb[i], 18) = IF fires /\ IsPlaceholder(B(wb0[i], 18))
                                  THEN vintage_value
                                  ELSE B(wb0[i], 18)
                /\ B(wb[i], 15) = IF fires /\ IsPlaceholder(B(wb0[i], 15))
                                  THEN vintage_value
                                  ELSE B(Propagate(wb0[i]), 15)

\* on an Overview sheet the placeholder in B15 was replaced by the vintage value
\* while B18, holding a date token, was kept
C9_Witness ==
    /\ pc = "saved"
    /\ vintage_value = Text(<<"J", "a", "n", "-", "2", "4">>)
    /\ \E i \in 1..Len(wb) :
           /\ wb0[i].name = <<"O", "V", "E", "R", "V", "I", "E", "W">>
           /\ B(wb0[i], 15) = Text(<<" ", "F", "i", "r", "s", "t", " ", "P", "r", "o", "d", "u", "c", "t", "i", "o", "n", " ", "M", "o", "n", "t", "h", " ">>)
           /\ B(wb[i], 15) = vintage_value
           /\ B(wb0[i], 18) = Text(<<"2", "0", "2", "4", "0", "2">>)
           /\ B(wb[i], 18) = Text(<<"2", "0", "2", "4", "0", "2">>)

\* the populated coordinates of ws within rows and columns 1..min(20, extent)
First20By20(ws) ==
    {p \in DOMAIN ws.cells : p[1] <= Min(20, ws.max_row) /\ p[2] <= Min(20, ws.max_col)}

\* what C10 says findBenchmarkVintage gives for the Accuracy sheet ws
ClaimedVintage(ws) ==
    LET bench == {p \in First20By20(ws) :
                     Lower(Strip(PyStr(ws.cells[p]))) = <<"b", "e", "n", "c", "h", "m", "a", "r", "k">>}
        vint == {p \in First20By20(ws) :
                    Contains(Lower(Strip(PyStr(ws.cells[p]))), <<"v", "i", "n", "t", "a", "g", "e">>)}
        first(S) == CHOOSE p \in S : \A q \in S : RowMajorLeq(p, q)
    IN  IF bench = {} \/ vint = {} THEN None
        ELSE convert_date_value(CellAt(ws, first(bench)[1], first(vint)[2]))

\* C10 as stated: the vintage value is convert_date_value of the cell at the row
\* of the first "benchmark" cell and the column of the first "vintage" cell found
\* in rows and columns 1..20 of the Accuracy sheet, row 20 and column 20
\* included, and none when either is missing.
C10_AsClaimed ==
    pc = "saved" =>
        \A i \in 1..Len(wb) :
            wb0[i].name = <<"A", "c", "c", "u", "r", "a", "c", "y">> => vintage_value = ClaimedVintage(wb0[i])

---------------------------------------------------------------------------
(* The order of the scan of check_for_alerts *)

\* the populated coordinates of sheet i the scan examines, by the time it ends
Examined(i) == CellsBelow(wb[i], ALERT_ROW_STOP, ALERT_COL_STOP)

\* the scan has finished its turn at coordinate p of sheet i
Passed(i, p) ==
    \/ pc = "alerts_done"
    \/ /\ pc = "alerts_scan"
       /\ \/ i < cur.sheet
          \/ i = cur.sheet /\ p[1] < cur.row
          \/ i = cur.sheet /\ p[1] = cur.row /\ p[2] < cur.col

\* <<i, p>> comes no later than <<j, q>> in the scan: sheets in workbook order,
\* rows top to bottom, columns left to right
ScanLeq(i, p, j, q) == i < j \/ (i = j /\ RowMajorLeq(p, q))

\* v is a label that qualifies for the field
Qualifies(field, v) ==
    IF field = "summary" THEN IsSummaryLabel(v) ELSE IsCommentsLabel(v)

\* the labels passed so far that qualify for the field and have a non-empty cell
\* within four columns to their right, as pairs <<sheet, coordinate>>
PassedHits(field) ==
    {x \in UNION {{<<i, p>> : p \in Examined(i)} : i \in 1..Len(wb)} :
        /\ Passed(x[1], x[2])
        /\ Qualifies(field, wb[x[1]].cells[x[2]])
        /\ FirstRight(wb[x[1]], x[2][1], x[2][2]) # <<>>}

\* the value found for the last of the hits, or none without a hit
LastFound(hits) ==
    IF hits = {} THEN None
    ELSE LET x == CHOOSE x \in hits :
                      \A y \in hits : ScanLeq(y[1], y[2], x[1], x[2])
         IN  Text(FirstRight(wb[x[1]], x[2][1], x[2][2])[1])

\* the detail lines of the labels todo, in scan order
RECURSIVE DetailsOf(_)
DetailsOf(todo) ==
    IF todo = {} THEN <<>>
    ELSE LET x == CHOOSE x \in todo :
                      \A y \in todo : ScanLeq(x[1], x[2], y[1], y[2])
             t == FirstRight(wb[x[1]], x[2][1], x[2][2])[1]
             v == wb[x[1]].cells[x[2]]
             sline == IF IsSummaryLabel(v) /\ ContainsColor(t)
                      THEN <<SUMMARY_PREFIX \o t>> ELSE <<>>
             cline == IF IsCommentsLabel(v) /\ ContainsColor(t)
                      THEN <<COMMENTS_PREFIX \o t>> ELSE <<>>
         IN  sline \o cline \o DetailsOf(todo \ {x})

\* s is an initial part of t
IsPrefix(s, t) == Len(s) <= Len(t) /\ SubSeq(t, 1, Len(s)) = s

\* the fields are those of the last hit so far and the details those of all hits
LastMatchWins ==
    pc \in {"alerts_scan", "alerts_done"} =>
        /\ alerts.summary = LastFound(PassedHits("summary"))
        /\ alerts.overall_comments = LastFound(PassedHits("overall_comments"))
        /\ alerts.alert_details =
               DetailsOf(PassedHits("summary") \cup PassedHits("overall_comments"))

\* no step resets the flag or takes a detail line away
FlagMonotone ==
    /\ alerts.has_alerts => alerts'.has_alerts
    /\ IsPrefix(alerts.alert_details, alerts'.alert_details)

---------------------------------------------------------------------------
(* The frame of the normalization pass *)

\* the coordinates of ws the pass may write: B7, B14, B15, B16 and B17, and B18
\* on a sheet named "Overview" in any case
Writable(ws) ==
    {<<r, 2>> : r \in {7, 14, 15, 16, 17}}
        \cup (IF NamedOverview(ws) THEN {<<18, 2>>} ELSE {})

\* the coordinates either version of sheet i populates
Populated(i) == DOMAIN wb[i].cells \cup DOMAIN wb0[i].cells

\* C12: at every point of the pass each sheet keeps its name and its cells, and
\* every cell other than B7, B14, B15, B16, B17 (and B18 on a sheet named
\* "Overview") holds the value it was loaded with; until the loop over the sheets
\* has begun (the model and segment extraction, the alert scan and the vintage
\* lookup have run by then) no cell has changed at all.
C12_Frame ==
    /\ Len(wb) = Len(wb0)
    /\ \A i \in 1..Len(wb) :
           /\ wb[i].name = wb0[i].name
           /\ DOMAIN wb0[i].cells \subseteq DOMAIN wb[i].cells
           /\ \A p \in Populated(i) \ Writable(wb0[i]) :
                  CellAt(wb[i], p[1], p[2]) = CellAt(wb0[i], p[1], p[2])
    /\ (pc = "pass_call" \/ (pc = "pass_sheets" /\ cur.sheet = 1)) => wb = wb0

\* next to an Accuracy sheet that gave a vintage value, a sheet named "Results"
\* had B17 overwritten while its placeholder in B18 and its A1 were kept
C12_Witness ==
    /\ pc = "saved"
    /\ vintage_value = Text(<<"J", "a", "n", "-", "2", "4">>)
    /\ \E i \in 1..Len(wb) :
           /\ wb0[i].name = <<"R", "e", "s", "u", "l", "t", "s">>
           /\ B(wb0[i], 18) = Text(<<"F", "i", "r", "s", "t", " ", "p", "r", "o", "d", "u", "c", "t", "i", "o", "n", " ", "m", "o", "n", "t", "h">>)
           /\ B(wb[i], 18) = Text(<<"F", "i", "r", "s", "t", " ", "p", "r", "o", "d", "u", "c", "t", "i", "o", "n", " ", "m", "o", "n", "t", "h">>)
           /\ B(wb0[i], 17) = Text(<<"o", "l", "d">>)
           /\ B(wb[i], 17) = Text(<<"M", "a", "r", "-", "2", "4">>)
           /\ CellAt(wb[i], 1, 1) = Text(<<"R", "e", "p", "o", "r", "t">>)

---------------------------------------------------------------------------
(* The flag and the detail lines of check_for_alerts *)

\* the two openings of a detail line
DetailOpenings ==
    {<<"S", "u", "m", "m", "a", "r", "y", " ", "c", "o", "n", "t", "a", "i", "n", "s", " ", "a", "l", "e", "r", "t", ":", " ">>, <<"O", "v", "e", "r", "a", "l", "l", " ", "C", "o", "m", "m", "e", "n", "t", "s", " ", "c", "o", "n", "t", "a", "i", "n", "s", " ", "a", "l", "e", "r", "t", ":", " ">>}

\* e is one of the openings followed by a text that contains "red" or "yellow"
IsDetailLine(e) ==
    \E pre \in DetailOpenings :
        /\ IsPrefix(pre, e)
        /\ ContainsColor(SubSeq(e, Len(pre) + 1, Len(e)))

\* some cell of some sheet of the workbook is a qualifying label
SomeLabel ==
    \E i \in 1..Len(wb) : \E p \in DOMAIN wb[i].cells :
        IsSummaryLabel(wb[i].cells[p]) \/ IsCommentsLabel(wb[i].cells[p])

\* the report nothing was written to
EmptyReport ==
    /\ alerts.has_alerts = FALSE
    /\ alerts.summary = None
    /\ alerts.overall_comments = None
    /\ alerts.alert_details = <<>>

\* C13: at every point of the scan and in the returned report has_alerts is true
\* exactly when alert_details is non-empty, every entry of alert_details is
\* "Summary contains alert: " or "Overall Comments contains alert: " followed by a
\* text that contains "red" or "yellow" in any case, and for a workbook without a
\* qualifying label the report is empty.
C13_FlagAndDetails ==
    /\ alerts.has_alerts <=> (alerts.alert_details # <<>>)
    /\ \A k \in 1..Len(alerts.alert_details) : IsDetailLine(alerts.alert_details[k])
    /\ ~SomeLabel => EmptyReport

\* one label qualifying for both fields, followed by "Red - needs review", gave
\* the flag and one detail line of each kind
C13_Witness ==
    /\ pc = "alerts_done"
    /\ alerts.has_alerts
    /\ alerts.alert_details =
           <<<<"S", "u", "m", "m", "a", "r", "y", " ", "c", "o", "n", "t", "a", "i", "n", "s", " ", "a", "l", "e", "r", "t", ":", " ", "R", "e", "d", " ", "-", " ", "n", "e", "e", "d", "s", " ", "r", "e", "v", "i", "e", "w">>,
             <<"O", "v", "e", "r", "a", "l", "l", " ", "C", "o", "m", "m", "e", "n", "t", "s", " ", "c", "o", "n", "t", "a", "i", "n", "s", " ", "a", "l", "e", "r", "t", ":", " ", "R", "e", "d", " ", "-", " ", "n", "e", "e", "d", "s", " ", "r", "e", "v", "i", "e", "w">>>>

====
